---------------------------- MODULE Spec2Model ----------------------------
(***************************************************************************)
(* ZMapScanConfig (src/zmapsdk/config.py) and the REST handlers            *)
(* (src/zmapsdk/api.py) as a state machine.                                *)
(*                                                                         *)
(* A Python value is a record with one slot per type, so that values of    *)
(* different types can be compared: t is the type, i the number of an int  *)
(* (a bool is 0/1, a float is held in hundredths), s the characters of a   *)
(* str, l the items of a list, d the entries of a dict.  A str is a        *)
(* sequence of one-character strings; "SUP2" stands for the character      *)
(* U+00B2 (superscript two), "NL" for a line feed.                         *)
(***************************************************************************)
EXTENDS Integers, Sequences, FiniteSets, TLC

\* self: the instance under test (NoInst before construction and after a failed one)
\* args: what the constructor call was given
\* exc:  what the constructor call raised (Ok: nothing)
\* last: the most recent call on the class or the instance, and what it returned
\* http: the most recent REST request and its response
VARIABLES self, args, exc, last, http

vars == <<self, args, exc, last, http>>

-----------------------------------------------------------------------------
(* Bounds of the model *)

\* most keyword arguments, besides rate and bandwidth, of one constructor call
MaxArgs == 2

\* most "-"-separated parts of a generated source_port string
MaxParts == 3

\* most characters of a generated max_targets string
MaxTargetsLen == 3

-----------------------------------------------------------------------------
(* Python values *)

PyNone == [t |-> "NoneType", i |-> 0, s |-> <<>>, l |-> <<>>, d |-> {}]

PyInt(n) == [t |-> "int", i |-> n, s |-> <<>>, l |-> <<>>, d |-> {}]

PyBool(b) == [t |-> "bool", i |-> IF b THEN 1 ELSE 0, s |-> <<>>, l |-> <<>>, d |-> {}]

PyFloat(hundredths) == [t |-> "float", i |-> hundredths, s |-> <<>>, l |-> <<>>, d |-> {}]

PyStr(chars) == [t |-> "str", i |-> 0, s |-> chars, l |-> <<>>, d |-> {}]

PyList(items) == [t |-> "list", i |-> 0, s |-> <<>>, l |-> items, d |-> {}]

\* a dict entry: the key is an int (kt = "int", ki) or a str (kt = "str", ks)
IntKey(k, v) == [kt |-> "int", ki |-> k, ks |-> <<>>, v |-> v]

StrKey(k, v) == [kt |-> "str", ki |-> 0, ks |-> k, v |-> v]

PyDict(entries) == [t |-> "dict", i |-> 0, s |-> <<>>, l |-> <<>>, d |-> entries]

IsNone(v) == v.t = "NoneType"

\* isinstance(v, int): bool is a subclass of int
IsInstanceInt(v) == v.t \in {"int", "bool"}

IsInstanceStr(v) == v.t = "str"

\* whether v supports 0 <= v <= 65535 (an int, a bool or a float); any other
\* type raises TypeError in the comparison
IsOrderedWithInt(v) == v.t \in {"int", "bool", "float"}

\* bool(v)
Truthy(v) ==
    CASE v.t = "NoneType" -> FALSE
      [] v.t \in {"bool", "int", "float"} -> v.i # 0
      [] v.t = "str" -> Len(v.s) > 0
      [] v.t = "list" -> Len(v.l) > 0
      [] v.t = "dict" -> v.d # {}

\* the number v stands for in a comparison with an int, in hundredths
Hundredths(v) == IF v.t = "float" THEN v.i ELSE 100 * v.i

-----------------------------------------------------------------------------
(* The dataclass: fields and defaults *)

BoolFields == {"vpn", "dryrun", "ignore_invalid_hosts"}

IntFields == {"target_port", "rate", "cooldown_time", "max_runtime", "max_results",
              "probes", "retries", "seed", "shards", "shard", "sender_threads",
              "max_sendto_failures"}

StrFields == {"bandwidth", "interface", "source_ip", "gateway_mac", "source_mac",
              "target_mac", "notes"}

Fields == BoolFields \cup IntFields \cup StrFields \cup
          {"source_port", "max_targets", "cores", "min_hitrate", "user_metadata"}

\* a flag that defaults to None like every other field
C7_DefaultNone(f) == PyNone

Default(f) == IF f \in BoolFields THEN PyBool(FALSE) ELSE PyNone

\* the annotation of field f admits value v
DeclaredType(f, v) ==
    CASE f \in BoolFields -> v.t = "bool"
      [] f \in IntFields -> v.t \in {"NoneType", "int"}
      [] f \in StrFields -> v.t \in {"NoneType", "str"}
      [] f \in {"source_port", "max_targets"} -> v.t \in {"NoneType", "int", "str"}
      [] f = "cores" -> v.t \in {"NoneType", "list", "str"}
      [] f = "min_hitrate" -> v.t \in {"NoneType", "float"}
      [] f = "user_metadata" -> v.t \in {"NoneType", "dict", "str"}
      [] OTHER -> FALSE

NoInst == [none |-> TRUE]

\* the generated __init__: every field takes its argument or its default
Bind(kw) == [f \in Fields |-> IF f \in DOMAIN kw THEN kw[f] ELSE Default(f)]

-----------------------------------------------------------------------------
(* Exceptions *)

Ok == [type |-> "ok", check |-> "none"]

Raise(type, check) == [type |-> type, check |-> check]

ZMapConfigError(check) == Raise("ZMapConfigError", check)

-----------------------------------------------------------------------------
(* str methods *)

AsciiDigits == {"0", "1", "2", "3", "4", "5", "6", "7", "8", "9"}

DigitVal(c) ==
    CASE c = "0" -> 0 [] c = "1" -> 1 [] c = "2" -> 2 [] c = "3" -> 3 [] c = "4" -> 4
      [] c = "5" -> 5 [] c = "6" -> 6 [] c = "7" -> 7 [] c = "8" -> 8 [] c = "9" -> 9

DigitChar(n) ==
    CASE n = 0 -> "0" [] n = 1 -> "1" [] n = 2 -> "2" [] n = 3 -> "3" [] n = 4 -> "4"
      [] n = 5 -> "5" [] n = 6 -> "6" [] n = 7 -> "7" [] n = 8 -> "8" [] n = 9 -> "9"

\* str.isdigit(): not empty and every character has the Unicode property
\* Digit, which U+00B2 has
IsDigit(p) == Len(p) > 0 /\ \A k \in 1..Len(p) : p[k] \in AsciiDigits \cup {"SUP2"}

\* "-" in s
Contains(s, c) == \E k \in 1..Len(s) : s[k] = c

\* s.split(sep), sep one character
RECURSIVE Split(_, _)
Split(s, sep) ==
    IF ~Contains(s, sep) THEN <<s>>
    ELSE LET k == CHOOSE j \in 1..Len(s) : s[j] = sep /\ \A m \in 1..(j - 1) : s[m] # sep
         IN <<SubSeq(s, 1, k - 1)>> \o Split(SubSeq(s, k + 1, Len(s)), sep)

\* s.endswith(c), c one character
EndsWith(s, c) == Len(s) > 0 /\ s[Len(s)] = c

\* s.strip() of blanks
RECURSIVE Strip(_)
Strip(s) ==
    IF Len(s) > 0 /\ s[1] = " " THEN Strip(Tail(s))
    ELSE IF Len(s) > 0 /\ s[Len(s)] = " " THEN Strip(SubSeq(s, 1, Len(s) - 1))
    ELSE s

\* whether int(s) returns: blanks stripped, one optional sign, then decimal
\* digits, single underscores allowed between digits; else it raises ValueError
IntParses(s) ==
    LET t == Strip(s)
        u == IF Len(t) > 0 /\ t[1] \in {"+", "-"} THEN Tail(t) ELSE t
    IN /\ Len(u) > 0
       /\ \A k \in 1..Len(u) : u[k] \in AsciiDigits \cup {"_"}
       /\ u[1] # "_" /\ u[Len(u)] # "_"
       /\ \A k \in 1..(Len(u) - 1) : u[k] = "_" => u[k + 1] # "_"

\* int(p) of a string of ASCII digits
RECURSIVE IntOfDigits(_)
IntOfDigits(p) ==
    IF Len(p) = 0 THEN 0
    ELSE 10 * IntOfDigits(SubSeq(p, 1, Len(p) - 1)) + DigitVal(p[Len(p)])

\* str(n) of an int
RECURSIVE StrOfNat(_)
StrOfNat(n) == IF n < 10 THEN <<DigitChar(n)>> ELSE StrOfNat(n \div 10) \o <<DigitChar(n % 10)>>

StrOfInt(n) == IF n < 0 THEN <<"-">> \o StrOfNat(-n) ELSE StrOfNat(n)

-----------------------------------------------------------------------------
(* _validate *)

MinPort == 0

MaxPort == 65535

\* line 87: 0 <= self.target_port <= 65535
CheckTargetPort(o) ==
    LET v == o["target_port"] IN
    IF IsNone(v) THEN Ok
    ELSE IF ~IsOrderedWithInt(v) THEN Raise("TypeError", "target_port")
    ELSE IF ~(100 * MinPort <= Hundredths(v) /\ Hundredths(v) <= 100 * MaxPort)
         THEN ZMapConfigError("target_port")
    ELSE Ok

\* the check left out
C1_RateBandwidthUnchecked(o) == Ok

\* line 90
CheckRateBandwidth(o) ==
    IF ~IsNone(o["rate"]) /\ ~IsNone(o["bandwidth"])
    THEN ZMapConfigError("rate_bandwidth") ELSE Ok

\* lines 93-102
CheckSourcePort(o) ==
    LET v == o["source_port"] IN
    IF IsNone(v) THEN Ok
    ELSE IF IsInstanceStr(v) /\ Contains(v.s, "-")
    THEN LET parts == Split(v.s, "-") IN
         IF Len(parts) # 2 \/ ~(\A k \in 1..Len(parts) : IsDigit(parts[k]))
         THEN ZMapConfigError("source_port_range")
         ELSE IF \E k \in 1..2 : ~IntParses(parts[k])
         THEN Raise("ValueError", "source_port_range")
         ELSE LET start == IntOfDigits(parts[1])
                  end == IntOfDigits(parts[2])
              IN IF ~(MinPort <= start /\ start <= end /\ end <= MaxPort)
                 THEN ZMapConfigError("source_port_range") ELSE Ok
    ELSE IF IsInstanceInt(v) /\ ~(MinPort <= v.i /\ v.i <= MaxPort)
    THEN ZMapConfigError("source_port")
    ELSE Ok

\* lines 104-109
CheckMaxTargets(o) ==
    LET v == o["max_targets"] IN
    IF ~IsNone(v) /\ IsInstanceStr(v)
    THEN IF ~EndsWith(v.s, "%")
         THEN IF IntParses(v.s) THEN Ok ELSE ZMapConfigError("max_targets")
         ELSE Ok
    ELSE Ok

OctetCount == 6

OctetLen == 2

HexDigits == AsciiDigits \cup {"A", "B", "C", "D", "E", "F", "a", "b", "c", "d", "e", "f"}

MacSeparators == {":", "-"}

MacLen == OctetCount * OctetLen + (OctetCount - 1)

\* re.match(r'^([0-9A-Fa-f]{2}[:-]){5}([0-9A-Fa-f]{2})$', mac): "$" matches at
\* the end of the string and also just before a line feed that ends it
_is_valid_mac(mac) ==
    /\ Len(mac) >= MacLen
    /\ \A g \in 0..(OctetCount - 1) :
          /\ \A k \in 1..OctetLen : mac[g * (OctetLen + 1) + k] \in HexDigits
          /\ g < OctetCount - 1 => mac[(g + 1) * (OctetLen + 1)] \in MacSeparators
    /\ \/ Len(mac) = MacLen
       \/ Len(mac) = MacLen + 1 /\ mac[MacLen + 1] = "NL"

MacFields == <<"gateway_mac", "source_mac", "target_mac">>

\* lines 112-115, from the k-th MAC field on
RECURSIVE CheckMacsFrom(_, _)
CheckMacsFrom(o, k) ==
    IF k > Len(MacFields) THEN Ok
    ELSE LET mac == o[MacFields[k]] IN
         IF IsNone(mac) THEN CheckMacsFrom(o, k + 1)
         ELSE IF ~IsInstanceStr(mac) THEN Raise("TypeError", MacFields[k])
         ELSE IF ~_is_valid_mac(mac.s) THEN ZMapConfigError(MacFields[k])
         ELSE CheckMacsFrom(o, k + 1)

CheckMacs(o) == CheckMacsFrom(o, 1)

\* the checks in the order of the code; the first that raises ends the call
_validate(o) ==
    IF CheckTargetPort(o) # Ok THEN CheckTargetPort(o)
    ELSE IF CheckRateBandwidth(o) # Ok THEN CheckRateBandwidth(o)
    ELSE IF CheckSourcePort(o) # Ok THEN CheckSourcePort(o)
    ELSE IF CheckMaxTargets(o) # Ok THEN CheckMaxTargets(o)
    ELSE CheckMacs(o)

-----------------------------------------------------------------------------
(* Construction: the generated __init__, then __post_init__ *)

NoArgs == [kind |-> "none", kw |-> <<>>]

Mapping(kw) == [kind |-> "mapping", kw |-> kw]

NotMapping == [kind |-> "array", kw |-> <<>>]

Unparsed == [kind |-> "malformed", kw |-> <<>>]

\* the result of a call that returns an instance or raises
Raised(e) == [exc |-> e, inst |-> NoInst]

Returned(o) == [exc |-> Ok, inst |-> o]

\* lines 81-83
__post_init__(o) == _validate(o)

\* cls(**data): data must be a mapping, every key a field
ZMapScanConfig(data) ==
    IF data.kind # "mapping" THEN Raised(Raise("TypeError", "not_a_mapping"))
    ELSE IF ~(DOMAIN data.kw \subseteq Fields)
    THEN Raised(Raise("TypeError", "unexpected_keyword"))
    ELSE IF __post_init__(Bind(data.kw)) # Ok THEN Raised(__post_init__(Bind(data.kw)))
    ELSE Returned(Bind(data.kw))

-----------------------------------------------------------------------------
(* Serialization *)

\* "if value:" in place of "if value is not None:"
C6_KeptIfTruthy(v) == Truthy(v)

\* line 127: value is not None
Kept(v) == ~IsNone(v)

\* lines 123-129: asdict copies every field's value; the kept ones stay
to_dict(o) == [f \in {g \in Fields : Kept(o[g])} |-> o[f]]

\* a member of a JSON object: json.dumps writes an int key as its digits
JsonMember(e) ==
    [kt |-> "str", ki |-> 0,
     ks |-> IF e.kt = "int" THEN StrOfInt(e.ki) ELSE e.ks,
     v  |-> e.v]

\* JSON values, in the slots of Python values: number (an integer literal),
\* real, true, false, null, string, array, object
JsonEncode(v) ==
    CASE v.t = "NoneType" -> [v EXCEPT !.t = "null"]
      [] v.t = "bool" -> [v EXCEPT !.t = IF v.i = 1 THEN "true" ELSE "false", !.i = 0]
      [] v.t = "int" -> [v EXCEPT !.t = "number"]
      [] v.t = "float" -> [v EXCEPT !.t = "real"]
      [] v.t = "str" -> [v EXCEPT !.t = "string"]
      [] v.t = "list" -> [v EXCEPT !.t = "array"]
      [] v.t = "dict" -> [v EXCEPT !.t = "object", !.d = {JsonMember(e) : e \in v.d}]

JsonDecode(j) ==
    CASE j.t = "null" -> [j EXCEPT !.t = "NoneType"]
      [] j.t = "true" -> [j EXCEPT !.t = "bool", !.i = 1]
      [] j.t = "false" -> [j EXCEPT !.t = "bool", !.i = 0]
      [] j.t = "number" -> [j EXCEPT !.t = "int"]
      [] j.t = "real" -> [j EXCEPT !.t = "float"]
      [] j.t = "string" -> [j EXCEPT !.t = "str"]
      [] j.t = "array" -> [j EXCEPT !.t = "list"]
      [] j.t = "object" -> [j EXCEPT !.t = "dict"]

\* a JSON text: an object with its members, an array, or text that is no JSON
NoText == [kind |-> "none", members |-> <<>>]

Malformed == [kind |-> "malformed", members |-> <<>>]

ArrayText == [kind |-> "array", members |-> <<>>]

ObjectText(m) == [kind |-> "object", members |-> m]

\* json.dumps(m, indent=2), m a dict keyed by field names
json_dumps(m) == ObjectText([f \in DOMAIN m |-> JsonEncode(m[f])])

\* json.loads(text), for a text that parses
json_loads(text) ==
    IF text.kind = "object"
    THEN Mapping([f \in DOMAIN text.members |-> JsonDecode(text.members[f])])
    ELSE NotMapping

\* lines 131-133
to_json(o) == json_dumps(to_dict(o))

\* lines 135-138
from_dict(data) == ZMapScanConfig(data)

\* lines 140-143: json.loads raises JSONDecodeError on text that is no JSON
from_json(text) ==
    IF text.kind = "malformed" THEN Raised(Raise("JSONDecodeError", "json.loads"))
    ELSE from_dict(json_loads(text))

-----------------------------------------------------------------------------
(* Inputs *)

Str10M == <<"1", "0", "M">>

Str80 == <<"8", "0">>

MacColons == <<"A", "A", ":", "B", "B", ":", "C", "C", ":", "D", "D", ":", "E", "E", ":", "F", "F">>

MacHyphens == <<"0", "a", "-", "1", "b", "-", "2", "c", "-", "3", "d", "-", "4", "e", "-", "5", "f">>

MacShort == <<"A", "A", ":", "B", "B", ":", "C", "C">>

MacBases == {MacColons, MacHyphens}

MacChars == {"A", "f", "9", "G", ":", "-", "NL", " "}

\* MAC strings: the two well-formed ones, and each with one character
\* replaced, with its end cut off, and with one character added at an end
MacStrs ==
    MacBases
    \cup {[b EXCEPT ![k] = c] : b \in MacBases, k \in 1..MacLen, c \in MacChars}
    \cup {SubSeq(b, 1, n) : b \in MacBases, n \in 0..(MacLen - 1)}
    \cup {b \o <<c>> : b \in MacBases, c \in MacChars}
    \cup {<<c>> \o b : b \in MacBases, c \in MacChars}
    \cup {b \o <<"NL", c>> : b \in MacBases, c \in {"NL", "A"}}

PortParts == {<<>>, <<"0">>, <<"5", "0", "0", "0">>, <<"6", "0", "0", "0">>,
              <<"6", "5", "5", "3", "5">>, <<"6", "5", "5", "3", "6">>,
              <<"a", "b", "c">>, <<"SUP2">>}

\* source_port strings of at most k parts joined by "-"
RECURSIVE PortStrs(_)
PortStrs(k) ==
    IF k <= 1 THEN PortParts
    ELSE PortStrs(k - 1) \cup {s \o <<"-">> \o p : s \in PortStrs(k - 1), p \in PortParts}

MaxTargetsChars == {"1", "a", "%", "-", " ", "_", "SUP2"}

\* max_targets strings of at most n characters
RECURSIVE CharStrs(_)
CharStrs(n) ==
    IF n = 0 THEN {<<>>}
    ELSE CharStrs(n - 1) \cup {s \o <<c>> : s \in CharStrs(n - 1), c \in MaxTargetsChars}

\* keyword arguments combined with one another
CoreArgs ==
    {<<"target_port", PyInt(80)>>, <<"target_port", PyInt(65536)>>,
     <<"target_port", PyStr(Str80)>>,
     <<"shard", PyInt(0)>>, <<"shard", PyInt(2)>>, <<"shards", PyInt(2)>>,
     <<"vpn", PyBool(TRUE)>>, <<"dryrun", PyBool(FALSE)>>,
     <<"seed", PyNone>>,
     <<"user_metadata", PyDict({StrKey(<<"k">>, <<"v">>)})>>,
     <<"user_metadata", PyDict({IntKey(1, <<"v">>)})>>,
     <<"cores", PyList(<<0, 1>>)>>, <<"min_hitrate", PyFloat(50)>>,
     <<"gateway_mac", PyStr(MacColons)>>,
     <<"max_targets", PyStr(<<"1", "%">>)>>,
     <<"source_port", PyStr(<<"5", "0", "0", "0", "-", "6", "0", "0", "0">>)>>,
     <<"bogus", PyInt(1)>>}

RateBandwidthArgs == {<<"rate", PyInt(1000)>>, <<"bandwidth", PyStr(Str10M)>>}

\* keyword arguments given alone
EdgeArgs ==
    {<<"target_port", v>> : v \in {PyInt(-1), PyInt(0), PyInt(65535), PyFloat(8050),
                                   PyBool(TRUE), PyList(<<80>>)}}
    \cup {<<"source_port", v>> : v \in {PyInt(-1), PyInt(0), PyInt(65535), PyInt(65536),
                                       PyBool(TRUE), PyFloat(-100)}}
    \cup {<<"source_port", PyStr(s)>> : s \in PortStrs(MaxParts)}
    \cup {<<"max_targets", v>> : v \in {PyInt(100), PyInt(-1)}}
    \cup {<<"max_targets", PyStr(s)>> : s \in CharStrs(MaxTargetsLen)}
    \cup {<<f, PyStr(m)>> : f \in {"gateway_mac", "source_mac", "target_mac"}, m \in MacStrs}
    \cup {<<"source_mac", PyInt(5)>>}
    \cup {<<f, PyInt(7)>> : f \in IntFields \ {"target_port", "rate"}}
    \cup {<<f, PyStr(<<"x">>)>> : f \in {"interface", "source_ip", "notes", "cores",
                                         "user_metadata"}}
    \cup {<<"target_mac", PyStr(MacShort)>>}
    \cup {<<f, PyBool(TRUE)>> : f \in BoolFields}

DistinctNames(p) == \A x, y \in p : x[1] = y[1] => x = y

\* the sets of at most k core arguments
RECURSIVE ArgSets(_)
ArgSets(k) ==
    IF k = 0 THEN {{}}
    ELSE ArgSets(k - 1) \cup
         {p \cup {x} : p \in ArgSets(k - 1), x \in CoreArgs}

KwOf(p) == [n \in {x[1] : x \in p} |-> (CHOOSE x \in p : x[1] = n)[2]]

CoreInputs ==
    {KwOf(p \cup rb) : p \in {q \in ArgSets(MaxArgs) : DistinctNames(q)},
                       rb \in SUBSET RateBandwidthArgs}

EdgeInputs == {KwOf({x}) : x \in EdgeArgs}

\* what a caller assigns to a field of an instance
Assignments == {<<"bandwidth", PyStr(Str10M)>>, <<"target_port", PyInt(65536)>>}

-----------------------------------------------------------------------------
(* The configuration's operations *)

NoCall == [op |-> "none", dict |-> <<>>, text |-> NoText, inst |-> NoInst, exc |-> Ok]

Call(op, dict, text, r) ==
    [op |-> op, dict |-> dict, text |-> text, inst |-> r.inst, exc |-> r.exc]

Constructors == {"__init__", "from_dict", "from_json"}

\* ZMapScanConfig(**kw)
New(kw) ==
    /\ args' = Mapping(kw)
    /\ exc' = ZMapScanConfig(Mapping(kw)).exc
    /\ self' = ZMapScanConfig(Mapping(kw)).inst
    /\ last' = [NoCall EXCEPT !.op = "__init__"]
    /\ UNCHANGED http

\* ZMapScanConfig.from_dict(data)
FromDict(data) ==
    /\ args' = data
    /\ exc' = from_dict(data).exc
    /\ self' = from_dict(data).inst
    /\ last' = [NoCall EXCEPT !.op = "from_dict"]
    /\ UNCHANGED http

\* ZMapScanConfig.from_json(text)
FromJson(text) ==
    /\ args' = IF text.kind = "malformed" THEN Unparsed ELSE json_loads(text)
    /\ exc' = from_json(text).exc
    /\ self' = from_json(text).inst
    /\ last' = [NoCall EXCEPT !.op = "from_json", !.text = text]
    /\ UNCHANGED http

\* self.to_dict()
ToDictCall ==
    /\ self # NoInst
    /\ last' = Call("to_dict", to_dict(self), NoText, Returned(NoInst))
    /\ UNCHANGED <<self, args, exc, http>>

\* self.to_json()
ToJsonCall ==
    /\ self # NoInst
    /\ last' = Call("to_json", <<>>, to_json(self), Returned(NoInst))
    /\ UNCHANGED <<self, args, exc, http>>

\* lines 145-148, self.save_to_file(filename): the text written
save_to_file ==
    /\ self # NoInst
    /\ last' = Call("save_to_file", <<>>, to_json(self), Returned(NoInst))
    /\ UNCHANGED <<self, args, exc, http>>

\* ZMapScanConfig.from_dict(d), d what to_dict just returned
ReloadDict ==
    /\ last.op = "to_dict"
    /\ last' = Call("reload_dict", last.dict, NoText, from_dict(Mapping(last.dict)))
    /\ UNCHANGED <<self, args, exc, http>>

\* ZMapScanConfig.from_json(t), t what to_json just returned
ReloadJson ==
    /\ last.op = "to_json"
    /\ last' = Call("reload_json", <<>>, last.text, from_json(last.text))
    /\ UNCHANGED <<self, args, exc, http>>

\* lines 150-154, ZMapScanConfig.load_from_file(filename), the file being the
\* one save_to_file just wrote
load_from_file ==
    /\ last.op = "save_to_file"
    /\ last' = Call("load_from_file", <<>>, last.text, from_json(last.text))
    /\ UNCHANGED <<self, args, exc, http>>

\* self.<f> = v: the dataclass is not frozen, and nothing validates again
SetAttr(f, v) ==
    /\ self # NoInst
    /\ self[f] # v
    /\ self' = [self EXCEPT ![f] = v]
    /\ last' = [NoCall EXCEPT !.op = "setattr"]
    /\ UNCHANGED <<args, exc, http>>

\* a constructor call is the first thing that happens
Construct ==
    /\ args = NoArgs
    /\ \/ \E kw \in CoreInputs \cup EdgeInputs : New(kw)
       \/ \E kw \in CoreInputs : FromDict(Mapping(kw))
       \/ FromDict(NotMapping)
       \/ \E kw \in CoreInputs : FromJson(json_dumps(kw))
       \/ \E text \in {Malformed, ArrayText} : FromJson(text)

-----------------------------------------------------------------------------
(* The REST handlers *)

ScanRequestFields == {"target_port", "subnets", "output_file", "blocklist_file",
                      "allowlist_file", "bandwidth", "probe_module", "rate", "seed",
                      "verbosity", "return_results"}

\* a ScanRequest: every field None unless given, return_results False
ScanRequest(given) ==
    [f \in ScanRequestFields |->
        IF f \in DOMAIN given THEN given[f]
        ELSE IF f = "return_results" THEN PyBool(FALSE) ELSE PyNone]

\* a BlocklistRequest: subnets is required
BlocklistRequest(subnets, output_file) ==
    [subnets |-> subnets, output_file |-> output_file]

StandardBlocklistRequest(output_file) == [output_file |-> output_file]

\* the path tempfile.mkstemp returns
TempPath == PyStr(<<"t", "m", "p">>)

GivenPath == PyStr(<<"o">>)

\* how a call of the facade (app.state.zmap) ends: it returns, or it raises an
\* error of the taxonomy
FacadeOutcomes == {"ok", "ZMapConfigError", "ExecutionError", "TimeoutError",
                   "PermissionError", "ResultParsingError"}

ValidationErrors == {"ZMapConfigError"}

ExecutionErrors == {"ExecutionError", "TimeoutError", "PermissionError",
                    "ResultParsingError"}

StatusOk == 200

StatusError == 500

NoRequest == [endpoint |-> "none", request |-> <<>>, params |-> <<>>,
              raised |-> "none", status |-> 0]

\* the response: 200 when the handler returns, HTTPException(500) when the
\* call in its try block raises any Exception
Respond(endpoint, request, params, outcome) ==
    [endpoint |-> endpoint, request |-> request, params |-> params,
     raised |-> IF outcome = "ok" THEN "none" ELSE outcome,
     status |-> IF outcome = "ok" THEN StatusOk ELSE StatusError]

\* if not output_file: mkstemp
OutputFile(request) ==
    IF ~Truthy(request["output_file"]) THEN TempPath ELSE request["output_file"]

\* lines 165-191
sync_scan(scan_request, outcome) ==
    LET keys == {k \in ScanRequestFields :
                    ~IsNone(scan_request[k]) /\ k # "return_results"}
        params == [k \in keys \cup {"output_file"} |->
                      IF k = "output_file" THEN OutputFile(scan_request)
                      ELSE scan_request[k]]
    IN /\ http' = Respond("/scan-sync", scan_request, params, outcome)
       /\ UNCHANGED <<self, args, exc, last>>

\* lines 105-122
create_blocklist(request, outcome) ==
    /\ http' = Respond("/blocklist", request,
                       [subnets |-> request.subnets, output_file |-> OutputFile(request)],
                       outcome)
    /\ UNCHANGED <<self, args, exc, last>>

\* lines 125-142
generate_standard_blocklist(request, outcome) ==
    /\ http' = Respond("/standard-blocklist", request,
                       [output_file |-> OutputFile(request)], outcome)
    /\ UNCHANGED <<self, args, exc, last>>

\* lines 145-162
create_allowlist(request, outcome) ==
    /\ http' = Respond("/allowlist", request,
                       [subnets |-> request.subnets, output_file |-> OutputFile(request)],
                       outcome)
    /\ UNCHANGED <<self, args, exc, last>>

\* requests that pass the pydantic models
OutputFiles == {PyNone, PyStr(<<>>), GivenPath}

ScanRequestArgs ==
    {<<"target_port", PyInt(80)>>, <<"target_port", PyInt(65536)>>,
     <<"rate", PyInt(1000)>>, <<"bandwidth", PyStr(Str10M)>>,
     <<"subnets", PyList(<<1>>)>>, <<"return_results", PyBool(TRUE)>>,
     <<"output_file", GivenPath>>, <<"output_file", PyStr(<<>>)>>}

ScanRequests ==
    {ScanRequest(KwOf(p)) : p \in {q \in SUBSET ScanRequestArgs : DistinctNames(q)}}

BlocklistRequests ==
    {BlocklistRequest(PyList(s), o) : s \in {<<>>, <<1>>, <<1, 2>>}, o \in OutputFiles}

StandardBlocklistRequests == {StandardBlocklistRequest(o) : o \in OutputFiles}

-----------------------------------------------------------------------------
(* Specifications *)

Init ==
    /\ self = NoInst
    /\ args = NoArgs
    /\ exc = Ok
    /\ last = NoCall
    /\ http = NoRequest

\* the life of one configuration
Next ==
    \/ Construct
    \/ ToDictCall
    \/ ToJsonCall
    \/ save_to_file
    \/ ReloadDict
    \/ ReloadJson
    \/ load_from_file
    \/ \E a \in Assignments : SetAttr(a[1], a[2])

Spec == Init /\ [][Next]_vars

\* the REST layer: one request after another, each ending as the facade ends
ApiNext ==
    \/ \E r \in ScanRequests, o \in FacadeOutcomes : sync_scan(r, o)
    \/ \E r \in BlocklistRequests, o \in FacadeOutcomes : create_blocklist(r, o)
    \/ \E r \in StandardBlocklistRequests, o \in FacadeOutcomes :
          generate_standard_blocklist(r, o)
    \/ \E r \in BlocklistRequests, o \in FacadeOutcomes : create_allowlist(r, o)

ApiSpec == Init /\ [][ApiNext]_vars

-----------------------------------------------------------------------------
(* Properties *)

\* a constructor call has just ended
JustConstructed == last.op \in Constructors

\* the call was given keyword arguments
CalledWithFields == args.kind = "mapping"

\* the call was given field f with a value other than None
Given(f) == CalledWithFields /\ f \in DOMAIN args.kw /\ ~IsNone(args.kw[f])

\* every argument names a field and has a type its annotation admits
WellTypedArgs ==
    /\ CalledWithFields
    /\ DOMAIN args.kw \subseteq Fields
    /\ \A f \in DOMAIN args.kw : DeclaredType(f, args.kw[f])

\* the call was given field f as a str and nothing else
OnlyStr(f) == CalledWithFields /\ DOMAIN args.kw = {f} /\ args.kw[f].t = "str"

InPortRange(n) == 0 <= n /\ n <= 65535

AllAsciiDigits(p) == Len(p) > 0 /\ \A k \in 1..Len(p) : p[k] \in AsciiDigits

TargetPortInBounds(v) == IsNone(v) \/ (v.t = "int" /\ InPortRange(v.i))

\* what C2 says of a source_port: a single port, as an int or a str, or a
\* range "start-end" of decimal integers
SourcePortInBounds(v) ==
    \/ IsNone(v)
    \/ v.t = "int" /\ InPortRange(v.i)
    \/ v.t = "str" /\ AllAsciiDigits(v.s) /\ InPortRange(IntOfDigits(v.s))
    \/ /\ v.t = "str"
       /\ Len(Split(v.s, "-")) = 2
       /\ AllAsciiDigits(Split(v.s, "-")[1]) /\ AllAsciiDigits(Split(v.s, "-")[2])
       /\ 0 <= IntOfDigits(Split(v.s, "-")[1])
       /\ IntOfDigits(Split(v.s, "-")[1]) <= IntOfDigits(Split(v.s, "-")[2])
       /\ IntOfDigits(Split(v.s, "-")[2]) <= 65535

\* C2: every constructed configuration has its target_port and source_port in
\* bounds, and a call with any other port value raises ZMapConfigError.
C2_PortsInBounds ==
    (JustConstructed /\ WellTypedArgs) =>
        LET o == Bind(args.kw)
            inBounds == /\ TargetPortInBounds(o["target_port"])
                        /\ SourcePortInBounds(o["source_port"])
        IN /\ self # NoInst => inBounds
           /\ ~inBounds => exc.type = "ZMapConfigError"

\* what C3 says a MAC is: six two-digit hexadecimal octets and, between them,
\* five delimiters, each a colon or a hyphen
SixOctets(m) ==
    /\ Len(m) = 17
    /\ \A k \in 1..17 : IF k % 3 = 0 THEN m[k] \in {":", "-"} ELSE m[k] \in HexDigits

\* C3: a call given one MAC field as a string succeeds exactly when the
\* string is six octets, and raises ZMapConfigError otherwise.
C3_MacIffSixOctets ==
    \A f \in {"gateway_mac", "source_mac", "target_mac"} :
        (JustConstructed /\ OnlyStr(f)) =>
            /\ self # NoInst <=> SixOctets(args.kw[f].s)
            /\ self = NoInst => exc.type = "ZMapConfigError"

\* what C4 says a max_targets string is: a bare integer, or a numeric prefix
\* followed by "%"
IntegerOrPercentage(s) ==
    \/ IntParses(s)
    \/ EndsWith(s, "%") /\ IntParses(SubSeq(s, 1, Len(s) - 1))

\* C4: a call given max_targets as a string succeeds exactly when the string
\* is an integer or a percentage, and raises ZMapConfigError otherwise.
C4_MaxTargetsString ==
    (JustConstructed /\ OnlyStr("max_targets")) =>
        /\ self # NoInst <=> IntegerOrPercentage(args.kw["max_targets"].s)
        /\ self = NoInst => exc.type = "ZMapConfigError"

\* C5: in every constructed configuration with shard and shards both set,
\* shard < shards.
C5_ShardBelowShards ==
    (JustConstructed /\ self # NoInst /\ self["shard"].t = "int" /\ self["shards"].t = "int")
        => self["shard"].i < self["shards"].i

\* the instance passes validation
Valid(o) == o # NoInst /\ _validate(o) = Ok

\* the call returned an instance equal to self, field by field
ReturnedEqual == last.exc = Ok /\ last.inst # NoInst /\ \A f \in Fields : last.inst[f] = self[f]

JsonExact(o) == \A f \in Fields : o[f].t = "dict" => \A e \in o[f].d : e.kt = "str"

Unassigned == CalledWithFields /\ self = Bind(args.kw)

\* C7 as stated: the keys of to_dict() are exactly the fields set at
\* construction.
C7_KeysAreFieldsSet ==
    (last.op = "to_dict" /\ Unassigned) =>
        DOMAIN last.dict = {f \in DOMAIN args.kw : ~IsNone(args.kw[f])}

\* C7 amended: the keys of to_dict() are the fields given a value other than
\* None at construction and each of vpn, dryrun, ignore_invalid_hosts that
\* was not given (it holds its default, False); every other field is omitted.
C7_KeysAreFieldsNotNone ==
    (last.op = "to_dict" /\ Unassigned) =>
        DOMAIN last.dict = {f \in DOMAIN args.kw : ~IsNone(args.kw[f])}
                           \cup (BoolFields \ DOMAIN args.kw)

\* C7 witness: built with only target_port=80, to_dict() has four keys
C7_Witness ==
    /\ last.op = "to_dict" /\ Unassigned
    /\ DOMAIN args.kw = {"target_port"} /\ args.kw["target_port"] = PyInt(80)
    /\ DOMAIN last.dict = {"target_port", "vpn", "dryrun", "ignore_invalid_hosts"}

\* C8: an instance keeps the field values it was constructed with, whatever
\* is done with it, and so passes validation in every reachable state.
C8_Immutable ==
    (self # NoInst /\ CalledWithFields) => (self = Bind(args.kw) /\ _validate(self) = Ok)

\* C9: a constructor call that fails raises ZMapConfigError, whether it is
\* direct construction, from_dict or from_json.
C9_OnlyConfigErrors ==
    (JustConstructed /\ exc # Ok) => exc.type = "ZMapConfigError"

\* C10: a validation error of the facade call is answered 4xx, an execution
\* or environment error 5xx.
C10_StatusByErrorKind ==
    /\ http.raised \in ValidationErrors => (400 <= http.status /\ http.status <= 499)
    /\ http.raised \in ExecutionErrors => (500 <= http.status /\ http.status <= 599)

=============================================================================
